---- MODULE Spec2Model ----
(***************************************************************************)
(* Verification model of the financial aggregation pipeline:               *)
(*   data_processing/data_processor.py  (DataProcessor)                    *)
(*   data_extraction/rds_connector.py   (RDSConnector)                     *)
(*   pipeline/__init__.py, pipeline/dummy.py (run_once)                    *)
(*                                                                         *)
(* Money is modelled in whole currency units (integers); a quotient that   *)
(* the code computes with float division is kept as the exact pair         *)
(* [num, den].  A pandas DataFrame is a record [ty, cols, rows]; Python    *)
(* values are records tagged by the field ty.                              *)
(***************************************************************************)
EXTENDS Integers, Sequences, FiniteSets, TLC

VARIABLES
    pc,             \* position of the operation that is running
    err,            \* name of the exception that ended it, or "none"
    db_expenses,    \* table `expenses` as pd.read_sql returns it
    db_sales,       \* table `daily_sales` as pd.read_sql returns it
    expenses_df,    \* run_once: expenses_df
    sales_df,       \* run_once: sales_df (mutated in place by process_sales_data)
    products_df,    \* run_once: products_df
    exp_summary,    \* run_once: exp_summary
    monthly_sales,  \* run_once: monthly_sales
    sales_mets,     \* run_once: sales_mets
    cashflow_df,    \* run_once: cashflow_df
    ratios,         \* run_once: ratios
    burn_rate_months, \* run_once: result['burn_rate_months']
    calls,          \* the operations invoked so far, in order
    entry,          \* the entry point of the run: run_once or main
    connection,     \* RDSConnector.connection: "none", "open" or "closed"
    db_products,    \* the rows of the products table in the database
    db_employees,   \* the active rows of the employees table
    employees_df,   \* run_once: employees_df
    emp_metrics,    \* run_once: emp_metrics
    prod_metrics,   \* run_once: prod_metrics
    monthly_df,     \* main: monthly_df
    cache,          \* dashboard/app.py: the TTLCache, key -> bundle object
    bundles,        \* dashboard/app.py: the bundle objects run_once has returned
    callers         \* dashboard/app.py: the handler each worker thread is running

vars == <<pc, err, db_expenses, db_sales, expenses_df, sales_df, products_df,
          exp_summary, monthly_sales, sales_mets, cashflow_df, ratios,
          burn_rate_months, calls, entry, connection, db_products, db_employees,
          employees_df, emp_metrics, prod_metrics, monthly_df, cache, bundles,
          callers>>

(***************************************************************************)
(* Bounds of the model.                                                    *)
(***************************************************************************)
MaxExpenses == 2    \* expense records per table
MaxSales == 2       \* sales records per table
MaxAmount == 2      \* largest amount / quantity / price drawn

(***************************************************************************)
(* Python values.                                                          *)
(***************************************************************************)
NoneV == [ty |-> "None"]
NaN == [ty |-> "nan"]
NaT == [ty |-> "NaT"]
Unset == [ty |-> "unset"]
PyInt(n) == [ty |-> "int", v |-> n]
PyStr(s) == [ty |-> "str", s |-> s]
Dict(d) == [ty |-> "dict", d |-> d]
List(l) == [ty |-> "list", l |-> l]
Ts(y, m) == [ty |-> "ts", y |-> y, m |-> m]
Ratio(n, d) == [ty |-> "ratio", num |-> n, den |-> d]

\* pd.DataFrame: column names and rows; pd.DataFrame() has neither.
DF(cols, rows) == [ty |-> "df", cols |-> cols, rows |-> rows]
EmptyDF == DF({}, <<>>)
\* DataFrame.empty: some axis has length 0.
IsEmpty(df) == df.cols = {} \/ df.rows = <<>>

\* The state of a whole pipeline run that a call of one function never touches.
DashFrame == UNCHANGED <<cache, bundles, callers>>

DashUnset ==
    /\ cache = Unset
    /\ bundles = Unset
    /\ callers = Unset

RunFrame ==
    /\ UNCHANGED <<entry, connection, db_products, db_employees, employees_df,
                   emp_metrics, prod_metrics, monthly_df>>
    /\ DashFrame

RunUnset ==
    /\ entry = Unset
    /\ connection = Unset
    /\ db_products = Unset
    /\ db_employees = Unset
    /\ employees_df = Unset
    /\ emp_metrics = Unset
    /\ prod_metrics = Unset
    /\ monthly_df = Unset
    /\ DashUnset

RECURSIVE SumSeq(_)
SumSeq(s) == IF s = <<>> THEN 0 ELSE s[1] + SumSeq(Tail(s))

RECURSIVE SeqOfSet(_)
SeqOfSet(S) ==
    IF S = {} THEN <<>>
    ELSE LET x == CHOOSE y \in S : TRUE IN <<x>> \o SeqOfSet(S \ {x})

(***************************************************************************)
(* Text.  A Python str that carries JSON is a sequence of tokens: a        *)
(* punctuation character P(c) or a word W(w), w a tuple of characters.     *)
(***************************************************************************)
P(c) == [t |-> "p", c |-> c]
W(w) == [t |-> "w", w |-> w]
LB == P("{")
RB == P("}")
LS == P("[")
RS == P("]")
COLON == P(":")
COMMA == P(",")
SQ == P("'")
DQ == P("\"")

DigitVal == ("0" :> 0) @@ ("1" :> 1) @@ ("2" :> 2) @@ ("3" :> 3) @@ ("4" :> 4)
            @@ ("5" :> 5) @@ ("6" :> 6) @@ ("7" :> 7) @@ ("8" :> 8) @@ ("9" :> 9)
DigitChar == <<"0", "1", "2", "3", "4", "5", "6", "7", "8", "9">>

IsDigits(w) == Len(w) > 0 /\ \A i \in 1..Len(w) : w[i] \in DOMAIN DigitVal

RECURSIVE DecVal(_)
DecVal(w) ==
    IF w = <<>> THEN 0
    ELSE DecVal(SubSeq(w, 1, Len(w) - 1)) * 10 + DigitVal[w[Len(w)]]

RECURSIVE DecStr(_)
DecStr(n) ==
    IF n < 10 THEN <<DigitChar[n + 1]>>
    ELSE DecStr(n \div 10) \o <<DigitChar[(n % 10) + 1]>>

NullWord == <<"n", "u", "l", "l">>

\* int(pid_str) of compute_revenue: the value, or ValueError.
py_int(w) ==
    IF IsDigits(w) THEN [ok |-> TRUE, v |-> DecVal(w)] ELSE [ok |-> FALSE]

\* str.replace("'", '"')
replace_quotes(text) ==
    [i \in DOMAIN text |-> IF text[i] = SQ THEN DQ ELSE text[i]]

(***************************************************************************)
(* json.loads / json.dumps on token text.  The grammar covers objects and  *)
(* arrays of scalars, numbers, double-quoted strings and null.             *)
(***************************************************************************)
JsonFail == [ok |-> FALSE]

ScalarAt(toks, i) ==
    IF i <= Len(toks) /\ toks[i].t = "w" /\ IsDigits(toks[i].w)
    THEN [ok |-> TRUE, v |-> PyInt(DecVal(toks[i].w)), next |-> i + 1]
    ELSE IF i <= Len(toks) /\ toks[i].t = "w" /\ toks[i].w = NullWord
    THEN [ok |-> TRUE, v |-> NoneV, next |-> i + 1]
    ELSE IF i + 2 <= Len(toks) /\ toks[i] = DQ /\ toks[i + 1].t = "w"
            /\ toks[i + 2] = DQ
    THEN [ok |-> TRUE, v |-> PyStr(<<toks[i + 1]>>), next |-> i + 3]
    ELSE JsonFail

RECURSIVE PairsFrom(_, _, _)
PairsFrom(toks, i, acc) ==
    IF i + 3 <= Len(toks) /\ toks[i] = DQ /\ toks[i + 1].t = "w"
       /\ toks[i + 2] = DQ /\ toks[i + 3] = COLON
    THEN LET s == ScalarAt(toks, i + 4) IN
         IF ~s.ok THEN JsonFail
         ELSE LET acc2 == (toks[i + 1].w :> s.v) @@ acc IN   \* a repeated key: last wins
              IF s.next = Len(toks) /\ toks[s.next] = RB
              THEN [ok |-> TRUE, v |-> Dict(acc2)]
              ELSE IF s.next < Len(toks) /\ toks[s.next] = COMMA
              THEN PairsFrom(toks, s.next + 1, acc2)
              ELSE JsonFail
    ELSE JsonFail

RECURSIVE ItemsFrom(_, _, _)
ItemsFrom(toks, i, acc) ==
    LET s == ScalarAt(toks, i) IN
    IF ~s.ok THEN JsonFail
    ELSE IF s.next = Len(toks) /\ toks[s.next] = RS
    THEN [ok |-> TRUE, v |-> List(Append(acc, s.v))]
    ELSE IF s.next < Len(toks) /\ toks[s.next] = COMMA
    THEN ItemsFrom(toks, s.next + 1, Append(acc, s.v))
    ELSE JsonFail

\* json.loads(text): [ok |-> TRUE, v |-> value], or JsonFail for JSONDecodeError.
json_loads(toks) ==
    IF toks = <<>> THEN JsonFail
    ELSE IF toks[1] = LB
    THEN IF Len(toks) = 2 /\ toks[2] = RB
         THEN [ok |-> TRUE, v |-> Dict(<<>>)]
         ELSE PairsFrom(toks, 2, <<>>)
    ELSE IF toks[1] = LS
    THEN IF Len(toks) = 2 /\ toks[2] = RS
         THEN [ok |-> TRUE, v |-> List(<<>>)]
         ELSE ItemsFrom(toks, 2, <<>>)
    ELSE LET s == ScalarAt(toks, 1) IN
         IF s.ok /\ s.next = Len(toks) + 1 THEN [ok |-> TRUE, v |-> s.v]
         ELSE JsonFail

DumpScalar(v) ==
    IF v.ty = "int" THEN <<W(DecStr(v.v))>>
    ELSE IF v.ty = "str" THEN <<DQ>> \o v.s \o <<DQ>>
    ELSE <<W(NullWord)>>

RECURSIVE DumpPairs(_, _)
DumpPairs(d, keys) ==
    IF keys = <<>> THEN <<>>
    ELSE <<DQ, W(keys[1]), DQ, COLON>> \o DumpScalar(d[keys[1]])
         \o (IF Len(keys) > 1 THEN <<COMMA>> ELSE <<>>)
         \o DumpPairs(d, Tail(keys))

RECURSIVE DumpItems(_)
DumpItems(l) ==
    IF l = <<>> THEN <<>>
    ELSE DumpScalar(l[1]) \o (IF Len(l) > 1 THEN <<COMMA>> ELSE <<>>)
         \o DumpItems(Tail(l))

\* json.dumps(value) for the values json_loads yields and for native mappings.
json_dumps(v) ==
    IF v.ty = "dict" THEN <<LB>> \o DumpPairs(v.d, SeqOfSet(DOMAIN v.d)) \o <<RB>>
    ELSE IF v.ty = "list" THEN <<LS>> \o DumpItems(v.l) \o <<RS>>
    ELSE DumpScalar(v)

(***************************************************************************)
(* Column coercions.                                                       *)
(***************************************************************************)
\* pd.to_numeric(col, errors='coerce').fillna(0) on one cell: a number stays,
\* a numeric string is parsed, anything else becomes NaN and then 0.
to_numeric_fillna0(v) ==
    IF v.ty = "int" THEN v.v
    ELSE IF v.ty = "str" /\ Len(v.s) = 1 /\ v.s[1].t = "w" /\ IsDigits(v.s[1].w)
    THEN DecVal(v.s[1].w)
    ELSE 0

\* pd.to_datetime(col, errors='coerce') on one cell.
to_datetime(v) == IF v.ty = "ts" THEN v ELSE NaT

\* Position of a timestamp's month on the calendar, and back.
MonthIdx(ts) == ts.y * 12 + (ts.m - 1)
MonthOfIdx(i) == Ts(i \div 12, (i % 12) + 1)

ZeroPad(w, n) == [i \in 1..(n - Len(w)) |-> "0"] \o w
UnknownMonth == <<"U", "n", "k", "n", "o", "w", "n">>

\* Series.dt.strftime('%Y-%m'): the text YYYY-MM, NaN for NaT.
strftime_Ym(ts) ==
    IF ts.ty = "ts"
    THEN ZeroPad(DecStr(ts.y), 4) \o <<"-">> \o ZeroPad(DecStr(ts.m), 2)
    ELSE NaN

\* .dt.strftime('%Y-%m').fillna('Unknown')
month_or_unknown(ts) == IF ts.ty = "ts" THEN strftime_Ym(ts) ELSE UnknownMonth

(***************************************************************************)
(* RDSConnector.extract_sales_data: fix_product_sales.                     *)
(***************************************************************************)
fix_product_sales(value) ==
    IF value.ty = "dict" THEN PyStr(json_dumps(value))
    ELSE IF value.ty = "str"
    THEN LET a == json_loads(value.s)
             b == json_loads(replace_quotes(value.s))
             data == IF a.ok THEN a.v ELSE IF b.ok THEN b.v ELSE Dict(<<>>)
         IN PyStr(json_dumps(data))
    ELSE PyStr(json_dumps(Dict(<<>>)))

\* The frame extract_sales_data returns for the table `result` read from the
\* database (the None it returns on a failure is chosen by the action).
extract_sales_frame(result) ==
    IF IsEmpty(result) THEN result
    ELSE LET amt == "sale_amount" \in result.cols /\ "daily_sales" \notin result.cols
             fix(r) ==
                 [date |-> to_datetime(r.date),
                  product_sales |-> fix_product_sales(r.product_sales)]
                 @@ (IF amt THEN [daily_sales |-> to_numeric_fillna0(r.sale_amount)]
                     ELSE <<>>)
                 @@ r
         IN DF(result.cols \cup (IF amt THEN {"daily_sales"} ELSE {}),
               [i \in DOMAIN result.rows |-> fix(result.rows[i])])

(***************************************************************************)
(* DataProcessor.process_sales_data.                                       *)
(***************************************************************************)
\* Variant of parse_product_sales: text is not decoded, it counts as no sales.
parse_product_sales_no_decode(val) ==
    IF val.ty = "dict" THEN val ELSE Dict(<<>>)

\* Step 2, lines 114-125.
parse_product_sales(val) ==
    IF val.ty = "dict" THEN val
    ELSE IF val.ty = "str"
    THEN LET a == json_loads(val.s) IN
         IF a.ok THEN a.v
         ELSE LET b == json_loads(replace_quotes(val.s)) IN
              IF b.ok THEN b.v ELSE Dict(<<>>)
    ELSE Dict(<<>>)

RECURSIVE SumQty(_, _)
SumQty(d, keys) ==
    IF keys = {} THEN 0
    ELSE LET k == CHOOSE x \in keys : TRUE IN d[k].v + SumQty(d, keys \ {k})

\* lambda d: sum(d.values())
items_sold(d) ==
    IF d.ty # "dict" THEN [exc |-> "AttributeError"]
    ELSE IF \E k \in DOMAIN d.d : d.d[k].ty # "int" THEN [exc |-> "TypeError"]
    ELSE [exc |-> "none", v |-> SumQty(d.d, DOMAIN d.d)]

\* products_df.set_index('product_id')['price'].to_dict(): a repeated id keeps
\* the last row's price.
price_lookup(products) ==
    LET rows == products.rows
        last(pid) == CHOOSE i \in DOMAIN rows :
                        /\ rows[i].product_id = pid
                        /\ \A j \in DOMAIN rows : rows[j].product_id = pid => j <= i
    IN [pid \in {rows[i].product_id : i \in DOMAIN rows} |-> rows[last(pid)].price]

RECURSIVE RevenueOver(_, _, _)
RevenueOver(d, keys, lookup) ==
    IF keys = {} THEN 0
    ELSE LET k == CHOOSE x \in keys : TRUE
             pid == py_int(k)
             term == IF ~pid.ok THEN 0                      \* ValueError: continue
                     ELSE IF pid.v \in DOMAIN lookup THEN d[k].v * lookup[pid.v]
                     ELSE 0                                 \* price_lookup.get(pid, 0.0)
         IN term + RevenueOver(d, keys \ {k}, lookup)

compute_revenue(d, lookup) == RevenueOver(d.d, DOMAIN d.d, lookup)

\* Variant of revenue_tier: the price lookup is preferred to sale_amount.
revenue_tier_lookup_first(sales, products) ==
    IF products # NoneV THEN "price_lookup"
    ELSE IF "sale_amount" \in sales.cols THEN "sale_amount"
    ELSE "items_sold"

\* Step 4: which of the three sources gives daily_sales.
revenue_tier(sales, products) ==
    IF "sale_amount" \in sales.cols THEN "sale_amount"
    ELSE IF products # NoneV THEN "price_lookup"
    ELSE "items_sold"

daily_sales(r, tier, products) ==
    IF tier = "sale_amount" THEN to_numeric_fillna0(r.sale_amount)
    ELSE IF tier = "price_lookup"
    THEN compute_revenue(r.product_sales, price_lookup(products))
    ELSE r.items_sold

SumField(rows, f) == SumSeq([i \in DOMAIN rows |-> rows[i][f]])

\* Step 7: sales_df.resample('ME', on='date').agg(...): one bin per calendar
\* month from the earliest to the latest dated record, rows without a date
\* left out; an empty bin has sum 0, count 0 and mean NaN.
monthly_bin(rows, idx) ==
    LET sel == SelectSeq(rows, LAMBDA r : r.date.ty = "ts" /\ MonthIdx(r.date) = idx)
    IN [date |-> MonthOfIdx(idx),
        total_sales |-> SumField(sel, "daily_sales"),
        average_daily_sales |->
            IF sel = <<>> THEN NaN ELSE Ratio(SumField(sel, "daily_sales"), Len(sel)),
        transaction_count |-> Len(sel),
        total_items_sold |-> SumField(sel, "items_sold"),
        month |-> month_or_unknown(MonthOfIdx(idx))]

resample_monthly(rows) ==
    LET idxs == {MonthIdx(rows[i].date) : i \in {j \in DOMAIN rows : rows[j].date.ty = "ts"}}
        lo == CHOOSE a \in idxs : \A b \in idxs : a <= b
        hi == CHOOSE a \in idxs : \A b \in idxs : a >= b
    IN [i \in 1..(hi - lo + 1) |-> monthly_bin(rows, lo + i - 1)]

\* Series.idxmax() / idxmin(): the first row that holds the extreme.
idxmax(rows, f) ==
    CHOOSE i \in DOMAIN rows :
        /\ \A j \in DOMAIN rows : rows[j][f] <= rows[i][f]
        /\ \A j \in 1..(i - 1) : rows[j][f] < rows[i][f]
idxmin(rows, f) ==
    CHOOSE i \in DOMAIN rows :
        /\ \A j \in DOMAIN rows : rows[j][f] >= rows[i][f]
        /\ \A j \in 1..(i - 1) : rows[j][f] > rows[i][f]

MonthlyCols ==
    {"date", "total_sales", "average_daily_sales", "transaction_count",
     "total_items_sold", "month"}

\* Step 8.
monthly_metrics(rows) ==
    Dict([total_sales |-> SumField(rows, "total_sales"),
          average_monthly_sales |-> Ratio(SumField(rows, "total_sales"), Len(rows)),
          highest_sales_month |-> rows[idxmax(rows, "total_sales")].month,
          lowest_sales_month |-> rows[idxmin(rows, "total_sales")].month])

\* What a call hands back: [exc, sales_df, monthly_df, metrics]; exc names the
\* exception that leaves the function, sales_df is the caller's frame as the
\* call leaves it (the function writes its columns into that frame).
sales_raised(e, cols, rows) ==
    [exc |-> e, sales_df |-> DF(cols, rows), monthly_df |-> Unset, metrics |-> Unset]

\* Steps 1 and 2: the date and product_sales columns rewritten.
sales_parsed(sales) ==
    [i \in DOMAIN sales.rows |->
        [date |-> to_datetime(sales.rows[i].date),
         product_sales |-> parse_product_sales(sales.rows[i].product_sales)]
        @@ sales.rows[i]]

\* Steps 7 and 8 on the frame with all its columns.
sales_aggregate(cols, full) ==
    IF \A i \in DOMAIN full : full[i].date.ty # "ts"
    THEN sales_raised("ValueError", cols, full)         \* resample over NaT only
    ELSE [exc |-> "none",
          sales_df |-> DF(cols, full),
          monthly_df |-> DF(MonthlyCols, resample_monthly(full)),
          metrics |-> monthly_metrics(resample_monthly(full))]

\* Steps 4 to 6 on the frame that has items_sold.
sales_revenue(sales, products, counted) ==
    IF revenue_tier(sales, products) = "price_lookup" /\ "product_id" \notin products.cols
    THEN sales_raised("KeyError", sales.cols \cup {"items_sold"}, counted)  \* set_index('product_id')
    ELSE sales_aggregate(
            sales.cols \cup {"items_sold", "daily_sales", "month"},
            [i \in DOMAIN counted |->
                [daily_sales |-> daily_sales(counted[i], revenue_tier(sales, products), products),
                 month |-> month_or_unknown(counted[i].date)]
                @@ counted[i]])

\* Step 3 on the parsed frame: the first record whose sum fails ends the call.
sales_items(sales, products, parsed) ==
    LET bad == {i \in DOMAIN parsed : items_sold(parsed[i].product_sales).exc # "none"}
    IN IF bad # {}
       THEN sales_raised(
               items_sold(parsed[CHOOSE i \in bad : \A j \in bad : i <= j].product_sales).exc,
               sales.cols, parsed)
       ELSE sales_revenue(sales, products,
               [i \in DOMAIN parsed |->
                   [items_sold |-> items_sold(parsed[i].product_sales).v] @@ parsed[i]])

process_sales_data(sales, products) ==
    IF sales = NoneV \/ IsEmpty(sales)
    THEN [exc |-> "none", sales_df |-> sales, monthly_df |-> EmptyDF,
          metrics |-> Dict(<<>>)]
    ELSE sales_items(sales, products, sales_parsed(sales))

(***************************************************************************)
(* Inputs: the rows the database can hold.                                 *)
(***************************************************************************)
SeqsUpTo(S, n) == UNION {[1..k -> S] : k \in 0..n}

K1 == <<"1">>
K7 == <<"7">>
K12 == <<"1", "2">>
KX == <<"x">>

\* str(dict): the Python-literal text of a mapping, single-quoted.
py_repr(v) == [i \in DOMAIN json_dumps(v) |->
                 IF json_dumps(v)[i] = DQ THEN SQ ELSE json_dumps(v)[i]]

NativeSales ==
    {Dict(K1 :> PyInt(MaxAmount)), Dict((K1 :> PyInt(1)) @@ (KX :> PyInt(1)))}

ProductSalesVals ==
    NativeSales
    \cup {PyStr(py_repr(Dict((K12 :> PyInt(3)) @@ (K7 :> PyInt(1))))),  \* "{'12': 3, '7': 1}"
          PyStr(<<LB, DQ, W(K1), DQ, COLON>>),                         \* '{"1":' cut short
          PyStr(<<W(<<"5">>)>>),                                       \* '5'
          NoneV}

\* Dates two calendar months apart, across a year end, and a missing date.
DateVals == {Ts(2023, 12), Ts(2024, 2), NoneV}
SaleAmountVals == {PyInt(MaxAmount + 3), NoneV}

SalesTables ==
    {DF({"date", "product_sales"}, rows) :
        rows \in SeqsUpTo([date : DateVals, product_sales : ProductSalesVals], MaxSales)}
    \cup
    {DF({"date", "product_sales", "sale_amount"}, rows) :
        rows \in SeqsUpTo([date : DateVals, product_sales : ProductSalesVals,
                           sale_amount : SaleAmountVals], MaxSales)}

\* The products argument: None (start.py passes none), pd.DataFrame() (what
\* process_products_data returns for no products) or a priced table.
ProductsArgs ==
    {NoneV, EmptyDF,
     DF({"product_id", "price"},
        <<[product_id |-> 1, price |-> MaxAmount], [product_id |-> 12, price |-> 1]>>)}

(***************************************************************************)
(* Sales: extraction followed by process_sales_data, or process_sales_data *)
(* called on the table as it is.                                           *)
(***************************************************************************)
SalesFrame ==
    /\ UNCHANGED <<db_expenses, expenses_df, exp_summary, cashflow_df, ratios,
                   burn_rate_months>>
    /\ RunFrame

SalesInit ==
    /\ pc = "start"
    /\ err = "none"
    /\ db_sales \in SalesTables
    /\ products_df \in ProductsArgs
    /\ db_expenses = Unset
    /\ expenses_df = Unset
    /\ sales_df = Unset
    /\ exp_summary = Unset
    /\ monthly_sales = Unset
    /\ sales_mets = Unset
    /\ cashflow_df = Unset
    /\ ratios = Unset
    /\ burn_rate_months = Unset
    /\ calls = <<>>
    /\ RunUnset

\* rds.extract_sales_data(): the normalised table, or None when there is no
\* connection or the query fails.
extract_sales_data ==
    /\ pc = "start"
    /\ \E ok \in BOOLEAN :
          sales_df' = IF ok THEN extract_sales_frame(db_sales) ELSE NoneV
    /\ pc' = "extracted"
    /\ calls' = Append(calls, "extract_sales_data")
    /\ UNCHANGED <<err, db_sales, products_df, monthly_sales, sales_mets>>
    /\ SalesFrame

\* A caller that hands process_sales_data the table with native mappings.
pass_sales_table ==
    /\ pc = "start"
    /\ sales_df' = db_sales
    /\ pc' = "passed"
    /\ calls' = calls
    /\ UNCHANGED <<err, db_sales, products_df, monthly_sales, sales_mets>>
    /\ SalesFrame

call_process_sales_data ==
    /\ pc \in {"extracted", "passed"}
    /\ LET r == process_sales_data(sales_df, products_df) IN
         /\ sales_df' = r.sales_df
         /\ monthly_sales' = r.monthly_df
         /\ sales_mets' = r.metrics
         /\ err' = r.exc
         /\ pc' = IF r.exc = "none" THEN "done" ELSE "raised"
    /\ calls' = Append(calls, "process_sales_data")
    /\ UNCHANGED <<db_sales, products_df>>
    /\ SalesFrame

SalesNext == extract_sales_data \/ pass_sales_table \/ call_process_sales_data

SpecSales == SalesInit /\ [][SalesNext]_vars

(***************************************************************************)
(* Properties of process_sales_data.                                       *)
(***************************************************************************)
SalesProcessed ==
    /\ calls # <<>>
    /\ calls[Len(calls)] = "process_sales_data"
    /\ sales_df # NoneV
    /\ ~IsEmpty(sales_df)

SalesReturned == SalesProcessed /\ pc = "done"

\* The value process_sales_data found in row i's product_sales.
RawProductSales(i) ==
    IF calls[1] = "extract_sales_data"
    THEN fix_product_sales(db_sales.rows[i].product_sales)
    ELSE db_sales.rows[i].product_sales

PriceOf(pid) ==
    LET at == {i \in DOMAIN products_df.rows : products_df.rows[i].product_id = pid}
    IN IF at = {} THEN 0
       ELSE products_df.rows[CHOOSE i \in at : \A j \in at : j <= i].price

IntegerKeys(d) ==
    {k \in DOMAIN d : k # <<>> /\ \A i \in DOMAIN k :
                         k[i] \in {"0", "1", "2", "3", "4", "5", "6", "7", "8", "9"}}

ExpectedLookupRevenue(d) ==
    LET ks == SeqOfSet(IntegerKeys(d))
    IN SumSeq([j \in DOMAIN ks |-> d[ks[j]].v * PriceOf(DecVal(ks[j]))])

ExpectedItemCount(d) ==
    LET ks == SeqOfSet(DOMAIN d) IN SumSeq([j \in DOMAIN ks |-> d[ks[j]].v])

ExpectedAmount(r) == IF r.sale_amount.ty = "int" THEN r.sale_amount.v ELSE 0

RecordMonths ==
    {strftime_Ym(sales_df.rows[i].date) :
        i \in {j \in DOMAIN sales_df.rows : sales_df.rows[j].date.ty = "ts"}}

\* C4: the monthly aggregate has exactly one row per calendar month that holds
\* a sales record; every row counts at least one transaction.
C4_OneRowPerSalesMonth ==
    SalesReturned =>
        /\ \A i \in DOMAIN monthly_sales.rows :
              monthly_sales.rows[i].transaction_count >= 1
        /\ {monthly_sales.rows[i].month : i \in DOMAIN monthly_sales.rows} = RecordMonths
        /\ Len(monthly_sales.rows) = Cardinality(RecordMonths)

\* C9: whatever the raw product_sales value, normalisation does not raise and
\* leaves a mapping (a mapping as it was, every value that is neither a mapping
\* nor a string as the empty mapping), so that summing its values succeeds.
C9_NormalizesToMapping ==
    SalesProcessed =>
        /\ err \notin {"AttributeError", "TypeError"}
        /\ \A i \in DOMAIN sales_df.rows :
              LET raw == RawProductSales(i)
                  norm == sales_df.rows[i].product_sales
              IN /\ norm.ty = "dict"
                 /\ raw.ty = "dict" => norm = raw
                 /\ raw.ty \notin {"dict", "str"} => norm = Dict(<<>>)

AllNative(df) == \A i \in DOMAIN df.rows : df.rows[i].product_sales.ty = "dict"

\* The same table with every product_sales mapping as JSON text.
JsonEncoded(df) ==
    DF(df.cols,
       [i \in DOMAIN df.rows |->
           [product_sales |-> PyStr(json_dumps(df.rows[i].product_sales))]
           @@ df.rows[i]])

\* C10: a table of native mappings and the same table with the mappings as
\* JSON text (written by json.dumps, or by the extractor's fix_product_sales)
\* give the same monthly aggregate, the same metrics and the same outcome.
C10_JsonAndNativeAgree ==
    (SalesProcessed /\ AllNative(db_sales)) =>
        LET twin == IF calls[1] = "extract_sales_data"
                    THEN process_sales_data(db_sales, products_df)
                    ELSE process_sales_data(JsonEncoded(db_sales), products_df)
        IN /\ monthly_sales = twin.monthly_df
           /\ sales_mets = twin.metrics
           /\ err = twin.exc

\* Two native records went through the extractor and were aggregated.
C10_Witness ==
    /\ SalesReturned
    /\ AllNative(db_sales)
    /\ calls[1] = "extract_sales_data"
    /\ Len(db_sales.rows) = 2
    /\ \E i \in DOMAIN db_sales.rows : KX \in DOMAIN db_sales.rows[i].product_sales.d
    /\ sales_mets.d.total_sales > 0

\* C11: normalizing a second time changes nothing: parse_product_sales
\* applied to an already parsed product_sales cell returns that cell, and the
\* numeric coercion applied to an already coerced figure returns that figure.
C11_NormalizationIdempotent ==
    SalesProcessed =>
        \A i \in DOMAIN sales_df.rows :
            /\ parse_product_sales(sales_df.rows[i].product_sales)
                   = sales_df.rows[i].product_sales
            /\ "daily_sales" \in DOMAIN sales_df.rows[i] =>
                   to_numeric_fillna0(PyInt(sales_df.rows[i].daily_sales))
                       = sales_df.rows[i].daily_sales

(***************************************************************************)
(* DataProcessor.process_expenses_data.  A type label is the tuple of its  *)
(* characters.                                                             *)
(***************************************************************************)
LowerOf ==
    ("A" :> "a") @@ ("B" :> "b") @@ ("C" :> "c") @@ ("D" :> "d") @@ ("E" :> "e")
    @@ ("F" :> "f") @@ ("G" :> "g") @@ ("H" :> "h") @@ ("I" :> "i") @@ ("J" :> "j")
    @@ ("K" :> "k") @@ ("L" :> "l") @@ ("M" :> "m") @@ ("N" :> "n") @@ ("O" :> "o")
    @@ ("P" :> "p") @@ ("Q" :> "q") @@ ("R" :> "r") @@ ("S" :> "s") @@ ("T" :> "t")
    @@ ("U" :> "u") @@ ("V" :> "v") @@ ("W" :> "w") @@ ("X" :> "x") @@ ("Y" :> "y")
    @@ ("Z" :> "z")

\* str.lower() of one label
lower(s) == [i \in DOMAIN s |-> IF s[i] \in DOMAIN LowerOf THEN LowerOf[s[i]] ELSE s[i]]

\* Series.str.contains(pat, case=False) on one label
contains_nocase(s, pat) ==
    \E i \in 0..(Len(s) - Len(pat)) :
        SubSeq(lower(s), i + 1, i + Len(pat)) = lower(pat)

Rent == <<"R", "e", "n", "t">>
Electricity == <<"E", "l", "e", "c", "t", "r", "i", "c", "i", "t", "y">>
Water == <<"W", "a", "t", "e", "r">>
Advertising == <<"A", "d", "v", "e", "r", "t", "i", "s", "i", "n", "g">>
Marketing == <<"M", "a", "r", "k", "e", "t", "i", "n", "g">>
BakeryDash == <<"B", "a", "k", "e", "r", "y", " ", "-", " ">>
Bakery == <<"B", "a", "k", "e", "r", "y">>

is_rent(r) == r.type = Rent
is_electricity(r) == r.type = Electricity
is_water(r) == r.type = Water
is_ingredients(r) == contains_nocase(r.type, BakeryDash)
is_marketing(r) == r.type \in {Advertising, Marketing}
is_other(r) == r.type \notin {Rent, Electricity, Water} /\ ~contains_nocase(r.type, Bakery)

\* The row filter of one category.
in_category(r, cat) ==
    CASE cat = "rent" -> is_rent(r)
      [] cat = "electricity" -> is_electricity(r)
      [] cat = "water" -> is_water(r)
      [] cat = "ingredients" -> is_ingredients(r)
      [] cat = "marketing" -> is_marketing(r)
      [] cat = "other" -> is_other(r)

sum_where(rows, cat) ==
    SumField(SelectSeq(rows, LAMBDA r : in_category(r, cat)), "amount")

\* Lines 41-48.
categorized_expenses(rows) ==
    [total_rent |-> sum_where(rows, "rent"),
     total_electricity |-> sum_where(rows, "electricity"),
     total_water |-> sum_where(rows, "water"),
     total_ingredients |-> sum_where(rows, "ingredients"),
     total_other |-> sum_where(rows, "other"),
     total_salary |-> 0]

\* df[cat].groupby('month')['amount'].sum().to_dict(): rows whose month is NaN
\* belong to no group.
monthly_where(rows, cat) ==
    LET sel == SelectSeq(rows, LAMBDA r : in_category(r, cat) /\ r.month # NaN)
    IN [m \in {sel[i].month : i \in DOMAIN sel} |->
           SumField(SelectSeq(sel, LAMBDA r : r.month = m), "amount")]

\* dict.get(month, 0)
get0(d, k) == IF k \in DOMAIN d THEN d[k] ELSE 0

\* Variant of monthly_expenses: total adds electricity and water on top of
\* utilities.
monthly_expenses_double_utilities(rows) ==
    LET monthly_rent == monthly_where(rows, "rent")
        monthly_electricity == monthly_where(rows, "electricity")
        monthly_water == monthly_where(rows, "water")
        monthly_ingredients == monthly_where(rows, "ingredients")
        monthly_marketing == monthly_where(rows, "marketing")
        all_months == DOMAIN monthly_rent \cup DOMAIN monthly_electricity
                      \cup DOMAIN monthly_water \cup DOMAIN monthly_ingredients
                      \cup DOMAIN monthly_marketing
    IN [month \in all_months |->
           [rent |-> get0(monthly_rent, month),
            utilities |-> get0(monthly_electricity, month) + get0(monthly_water, month),
            electricity |-> get0(monthly_electricity, month),
            water |-> get0(monthly_water, month),
            ingredients |-> get0(monthly_ingredients, month),
            marketing |-> get0(monthly_marketing, month),
            total |-> get0(monthly_rent, month)
                      + (get0(monthly_electricity, month) + get0(monthly_water, month))
                      + get0(monthly_electricity, month) + get0(monthly_water, month)
                      + get0(monthly_ingredients, month)
                      + get0(monthly_marketing, month)]]

\* Lines 56-82.
monthly_expenses(rows) ==
    LET monthly_rent == monthly_where(rows, "rent")
        monthly_electricity == monthly_where(rows, "electricity")
        monthly_water == monthly_where(rows, "water")
        monthly_ingredients == monthly_where(rows, "ingredients")
        monthly_marketing == monthly_where(rows, "marketing")
        all_months == DOMAIN monthly_rent \cup DOMAIN monthly_electricity
                      \cup DOMAIN monthly_water \cup DOMAIN monthly_ingredients
                      \cup DOMAIN monthly_marketing
    IN [month \in all_months |->
           [rent |-> get0(monthly_rent, month),
            utilities |-> get0(monthly_electricity, month) + get0(monthly_water, month),
            electricity |-> get0(monthly_electricity, month),
            water |-> get0(monthly_water, month),
            ingredients |-> get0(monthly_ingredients, month),
            marketing |-> get0(monthly_marketing, month),
            total |-> get0(monthly_rent, month)
                      + (get0(monthly_electricity, month) + get0(monthly_water, month))
                      + get0(monthly_ingredients, month)
                      + get0(monthly_marketing, month)]]

\* Lines 23-37 and 53: the coerced and derived columns of one record
\* (days_until_due, a day count, is not modelled).
expense_record(r) ==
    [amount |-> to_numeric_fillna0(r.amount),
     bill_date |-> to_datetime(r.bill_date),
     is_utility |-> ~contains_nocase(r.type, Bakery),
     month |-> strftime_Ym(to_datetime(r.bill_date))]
    @@ r

expense_records(df) == [i \in DOMAIN df.rows |-> expense_record(df.rows[i])]

\* The whole call: [exc, expenses_df, summary].
process_expenses_data(df) ==
    IF df = NoneV \/ IsEmpty(df)
    THEN [exc |-> "none", expenses_df |-> EmptyDF, summary |-> Dict(<<>>)]
    ELSE [exc |-> "none",
          expenses_df |-> DF(df.cols \cup {"is_utility", "month"}, expense_records(df)),
          summary |-> Dict([categorized_expenses |->
                                categorized_expenses(expense_records(df)),
                            monthly_expenses |->
                                monthly_expenses(expense_records(df))])]

\* The frame extract_expenses_data returns for the table read from the database.
extract_expenses_frame(result) ==
    IF IsEmpty(result) THEN result
    ELSE DF(result.cols,
            [i \in DOMAIN result.rows |->
                [amount |-> PyInt(to_numeric_fillna0(result.rows[i].amount)),
                 bill_date |-> to_datetime(result.rows[i].bill_date)]
                @@ result.rows[i]])

TypeLabels ==
    {Rent, Electricity, Water, Marketing,
     <<"B", "a", "k", "e", "r", "y", " ", "-", " ", "F", "l", "o", "u", "r">>,
     <<"B", "A", "K", "E", "R", "Y", " ", "-", " ", "E", "G", "G", "S">>,
     <<"B", "a", "k", "e", "r", "y", " ", "O", "v", "e", "n">>,
     <<"I", "n", "s", "u", "r", "a", "n", "c", "e">>}

AmountVals == {PyInt(MaxAmount), NoneV}
BillDates == {Ts(2024, 1), Ts(2024, 2), NoneV}

ExpenseTables ==
    {DF({"type", "amount", "bill_date"}, rows) :
        rows \in SeqsUpTo([type : TypeLabels, amount : AmountVals,
                           bill_date : BillDates], MaxExpenses)}

(***************************************************************************)
(* Expenses: extraction followed by process_expenses_data.                 *)
(***************************************************************************)
ExpensesFrame ==
    /\ UNCHANGED <<db_sales, sales_df, products_df, monthly_sales, sales_mets,
                   cashflow_df, ratios, burn_rate_months>>
    /\ RunFrame

ExpensesInit ==
    /\ pc = "start"
    /\ err = "none"
    /\ db_expenses \in ExpenseTables
    /\ db_sales = Unset
    /\ expenses_df = Unset
    /\ sales_df = Unset
    /\ products_df = Unset
    /\ exp_summary = Unset
    /\ monthly_sales = Unset
    /\ sales_mets = Unset
    /\ cashflow_df = Unset
    /\ ratios = Unset
    /\ burn_rate_months = Unset
    /\ calls = <<>>
    /\ RunUnset

\* rds.extract_expenses_data(): the table with amount and dates coerced, or
\* None when there is no connection or the query fails.
extract_expenses_data ==
    /\ pc = "start"
    /\ \E ok \in BOOLEAN :
          expenses_df' = IF ok THEN extract_expenses_frame(db_expenses) ELSE NoneV
    /\ pc' = "extracted"
    /\ calls' = Append(calls, "extract_expenses_data")
    /\ UNCHANGED <<err, db_expenses, exp_summary>>
    /\ ExpensesFrame

call_process_expenses_data ==
    /\ pc = "extracted"
    /\ LET r == process_expenses_data(expenses_df) IN
         /\ expenses_df' = r.expenses_df
         /\ exp_summary' = r.summary
         /\ err' = r.exc
         /\ pc' = IF r.exc = "none" THEN "done" ELSE "raised"
    /\ calls' = Append(calls, "process_expenses_data")
    /\ UNCHANGED db_expenses
    /\ ExpensesFrame

ExpensesNext == extract_expenses_data \/ call_process_expenses_data

SpecExpenses == ExpensesInit /\ [][ExpensesNext]_vars

(***************************************************************************)
(* Properties of process_expenses_data.                                    *)
(***************************************************************************)
ExpensesReturned ==
    /\ calls # <<>>
    /\ calls[Len(calls)] = "process_expenses_data"
    /\ pc = "done"
    /\ ~IsEmpty(expenses_df)

FlatTotal(c) ==
    c.total_rent + c.total_electricity + c.total_water + c.total_ingredients
    + c.total_other

\* C1: the flat category totals add up to the sum of all record amounts: every
\* record is counted in exactly one category.
C1_CategoryTotalsCoverAll ==
    ExpensesReturned =>
        FlatTotal(exp_summary.d.categorized_expenses)
            = SumField(expenses_df.rows, "amount")

MonthlyBreakdown == exp_summary.d.monthly_expenses

\* C14: in the month-to-category breakdown every month's total is
\* rent + utilities + ingredients + marketing of that month, where utilities
\* is electricity + water, counted once.
C14_MonthlyTotalIsCategorySum ==
    ExpensesReturned =>
        \A month \in DOMAIN MonthlyBreakdown :
            /\ MonthlyBreakdown[month].utilities
                   = MonthlyBreakdown[month].electricity + MonthlyBreakdown[month].water
            /\ MonthlyBreakdown[month].total
                   = MonthlyBreakdown[month].rent + MonthlyBreakdown[month].utilities
                     + MonthlyBreakdown[month].ingredients + MonthlyBreakdown[month].marketing

\* A month with an electricity bill and a water bill and nothing else.
C14_Witness ==
    /\ ExpensesReturned
    /\ \E month \in DOMAIN MonthlyBreakdown :
          /\ MonthlyBreakdown[month].electricity > 0
          /\ MonthlyBreakdown[month].water > 0
          /\ MonthlyBreakdown[month].total
                 = MonthlyBreakdown[month].electricity + MonthlyBreakdown[month].water

\* Months of the processed records, a record without bill_date having none.
ExpenseMonths ==
    {expenses_df.rows[i].month :
        i \in {j \in DOMAIN expenses_df.rows : expenses_df.rows[j].month # NaN}}

MonthlyGrandTotal ==
    SumSeq([i \in DOMAIN SeqOfSet(DOMAIN MonthlyBreakdown) |->
               MonthlyBreakdown[SeqOfSet(DOMAIN MonthlyBreakdown)[i]].total])

AllDated == \A i \in DOMAIN expenses_df.rows : expenses_df.rows[i].month # NaN

\* C21: when every record carries a bill_date, every month with an expense
\* record has an entry in the monthly breakdown, and the monthly totals add
\* up to the flat category totals (total_salary left out).
C21_MonthlyMatchesFlat ==
    (ExpensesReturned /\ AllDated) =>
        /\ ExpenseMonths \subseteq DOMAIN MonthlyBreakdown
        /\ MonthlyGrandTotal = FlatTotal(exp_summary.d.categorized_expenses)

(***************************************************************************)
(* Cash flow, ratios and runway (pipeline/__init__.py lines 32-58,         *)
(* pipeline/dummy.py).  DataProcessor.cash_flow and                        *)
(* DataProcessor.financial_ratios are called by run_once; they are         *)
(* modelled from sections 4.4 and 4.5 of the specification.                *)
(***************************************************************************)
CharCode ==
    ("-" :> 0) @@ ("0" :> 1) @@ ("1" :> 2) @@ ("2" :> 3) @@ ("3" :> 4) @@ ("4" :> 5)
    @@ ("5" :> 6) @@ ("6" :> 7) @@ ("7" :> 8) @@ ("8" :> 9) @@ ("9" :> 10)

\* a < b for two month keys, as Python compares str
RECURSIVE StrLess(_, _)
StrLess(a, b) ==
    IF b = <<>> THEN FALSE
    ELSE IF a = <<>> THEN TRUE
    ELSE IF a[1] # b[1] THEN CharCode[a[1]] < CharCode[b[1]]
    ELSE StrLess(Tail(a), Tail(b))

RECURSIVE SortByMonth(_)
SortByMonth(rows) ==
    IF rows = <<>> THEN <<>>
    ELSE LET i == CHOOSE k \in DOMAIN rows :
                     \A j \in DOMAIN rows :
                         ~StrLess(rows[j].month, rows[k].month) /\ (rows[j].month = rows[k].month => k <= j)
         IN <<rows[i]>> \o SortByMonth(SubSeq(rows, 1, i - 1) \o SubSeq(rows, i + 1, Len(rows)))

CashflowCols == {"month", "cash_in", "cash_out", "net_cash", "cum_cash"}

\* Outflow of one month: the expense amounts of that month key, 0 when the
\* expenses hold no such month.
cash_out_of(expenses, month) ==
    IF IsEmpty(expenses) THEN 0
    ELSE SumField(SelectSeq(expenses.rows, LAMBDA r : r.month = month), "amount")

net_rows(sorted, expenses) ==
    [i \in DOMAIN sorted |->
        [month |-> sorted[i].month,
         cash_in |-> sorted[i].total_sales,
         cash_out |-> cash_out_of(expenses, sorted[i].month),
         net_cash |-> sorted[i].total_sales - cash_out_of(expenses, sorted[i].month)]]

\* Series.cumsum()
cumsum(xs) == [i \in DOMAIN xs |-> SumSeq(SubSeq(xs, 1, i))]

with_cum_cash(rows) ==
    [i \in DOMAIN rows |->
        [cum_cash |-> cumsum([j \in DOMAIN rows |-> rows[j].net_cash])[i]] @@ rows[i]]

\* dp.cash_flow(monthly_sales, expenses_df): one row per inflow month in
\* ascending month order, the outflow reindexed onto the inflow's months.
cash_flow(monthly, expenses) ==
    DF(CashflowCols, with_cum_cash(net_rows(SortByMonth(monthly.rows), expenses)))

max1(x) == IF x > 1 THEN x ELSE 1

CurrentAssets == 85000
CurrentLiab == 32000
TotalDebt == 15000
Equity == 53000
RunwaySentinel == 99

\* Variant of financial_ratios: current_ratio divides by current_liab itself.
financial_ratios_unfloored(monthly, summary, balance) ==
    LET total_sales == SumField(monthly.rows, "total_sales") IN
    [gross_margin |-> Ratio(total_sales - summary.total_ingredients, total_sales),
     current_ratio |-> Ratio(balance.current_assets, balance.current_liab),
     quick_ratio |-> Ratio(balance.current_assets - balance.inventory,
                           max1(balance.current_liab)),
     debt_to_equity |-> Ratio(balance.total_debt, max1(balance.equity)),
     dscr |-> Ratio(total_sales, max1(summary.total_other + summary.total_salary))]

\* dp.financial_ratios(monthly_sales, exp_summary, balance): the formulas of
\* section 4.5, each quotient kept as numerator and denominator.
financial_ratios(monthly, summary, balance) ==
    LET total_sales == SumField(monthly.rows, "total_sales") IN
    [gross_margin |-> Ratio(total_sales - summary.total_ingredients, total_sales),
     current_ratio |-> Ratio(balance.current_assets, max1(balance.current_liab)),
     quick_ratio |-> Ratio(balance.current_assets - balance.inventory,
                           max1(balance.current_liab)),
     debt_to_equity |-> Ratio(balance.total_debt, max1(balance.equity)),
     dscr |-> Ratio(total_sales, max1(summary.total_other + summary.total_salary))]

\* The balance sheet run_once passes (lines 38-44).
run_once_balance(summary) ==
    [current_assets |-> CurrentAssets, current_liab |-> CurrentLiab,
     total_debt |-> TotalDebt, equity |-> Equity,
     inventory |-> summary.total_ingredients]

\* Variant of burn_rate: reads the first month instead of the most recent one.
burn_rate_first_month(cashflow) ==
    IF cashflow.rows = <<>> THEN [exc |-> "IndexError"]
    ELSE LET first == cashflow.rows[1] IN
         [exc |-> "none",
          v |-> IF first.net_cash < 0 THEN Ratio(first.cum_cash, -first.net_cash)
                ELSE PyInt(RunwaySentinel)]

\* Lines 55-57: the runway of the result bundle; iloc[-1] of an empty series
\* raises IndexError.
burn_rate(cashflow) ==
    IF cashflow.rows = <<>> THEN [exc |-> "IndexError"]
    ELSE LET last == cashflow.rows[Len(cashflow.rows)] IN
         [exc |-> "none",
          v |-> IF last.net_cash < 0 THEN Ratio(last.cum_cash, -last.net_cash)
                ELSE PyInt(RunwaySentinel)]

\* pipeline/dummy.py: the frames it builds and the series it derives from them.
M2024_01 == <<"2", "0", "2", "4", "-", "0", "1">>
M2024_02 == <<"2", "0", "2", "4", "-", "0", "2">>
dummy_monthly_sales ==
    DF({"date", "total_sales", "month"},
       <<[date |-> Ts(2024, 1), total_sales |-> 12000, month |-> M2024_01],
         [date |-> Ts(2024, 2), total_sales |-> 15000, month |-> M2024_02]>>)
dummy_expenses_df ==
    DF({"month", "amount"},
       <<[month |-> M2024_01, amount |-> 9500], [month |-> M2024_02, amount |-> 10300]>>)

\* Variant of dummy_cashflow: cum_cash copies net_cash instead of accumulating it.
dummy_cashflow_no_cumsum(monthly, expenses) ==
    DF(CashflowCols,
       [i \in DOMAIN monthly.rows |->
           [month |-> monthly.rows[i].month,
            cash_in |-> monthly.rows[i].total_sales,
            cash_out |-> expenses.rows[i].amount,
            net_cash |-> monthly.rows[i].total_sales - expenses.rows[i].amount,
            cum_cash |-> monthly.rows[i].total_sales - expenses.rows[i].amount]])

\* Variant of dummy_cashflow: the expense column is taken in reverse row order.
dummy_cashflow_reversed(monthly, expenses) ==
    DF(CashflowCols,
       with_cum_cash(
           [i \in DOMAIN monthly.rows |->
               [month |-> monthly.rows[i].month,
                cash_in |-> monthly.rows[i].total_sales,
                cash_out |-> expenses.rows[Len(expenses.rows) + 1 - i].amount,
                net_cash |-> monthly.rows[i].total_sales
                             - expenses.rows[Len(expenses.rows) + 1 - i].amount]]))

\* Lines 15-21: the columns are aligned on the row index.
dummy_cashflow(monthly, expenses) ==
    DF(CashflowCols,
       with_cum_cash(
           [i \in DOMAIN monthly.rows |->
               [month |-> monthly.rows[i].month,
                cash_in |-> monthly.rows[i].total_sales,
                cash_out |-> expenses.rows[i].amount,
                net_cash |-> monthly.rows[i].total_sales - expenses.rows[i].amount]]))

(***************************************************************************)
(* Inputs: monthly sales aggregates and processed expense records.         *)
(***************************************************************************)
MaxMonths == 2      \* rows of a monthly sales aggregate

MonthKeys == {<<"2", "0", "2", "3", "-", "1", "2">>, M2024_01, M2024_02}

Injective(f) == \A a, b \in DOMAIN f : f[a] = f[b] => a = b

MonthlyFrames ==
    {DF({"date", "total_sales", "month"}, rows) :
        rows \in {r \in SeqsUpTo([month : MonthKeys, total_sales : {0, MaxAmount}],
                                 MaxMonths) :
                     Injective([i \in DOMAIN r |-> r[i].month])}}

CashExpenseTypes == {<<"B", "a", "k", "e", "r", "y", " ", "-", " ", "F", "l", "o", "u", "r">>, <<"I", "n", "s", "u", "r", "a", "n", "c", "e">>}

CashExpenseFrames ==
    {EmptyDF}
    \cup {DF({"type", "amount", "month"}, rows) :
            rows \in SeqsUpTo([type : CashExpenseTypes, amount : {MaxAmount + 1},
                               month : MonthKeys], MaxExpenses) \ {<<>>}}

BalanceSheets(summary) ==
    {run_once_balance(summary),
     [current_assets |-> MaxAmount, current_liab |-> 0, total_debt |-> MaxAmount,
      equity |-> 0, inventory |-> summary.total_ingredients]}

CashFrame ==
    /\ UNCHANGED <<db_expenses, db_sales, sales_df, products_df, sales_mets>>
    /\ RunFrame

CashInit ==
    /\ pc = "start"
    /\ err = "none"
    /\ monthly_sales \in MonthlyFrames
    /\ expenses_df \in CashExpenseFrames
    /\ \E salary \in {0, MaxAmount} :
          exp_summary =
              [categorized_expenses(IF IsEmpty(expenses_df) THEN <<>> ELSE expenses_df.rows)
                  EXCEPT !.total_salary = salary]
    /\ db_expenses = Unset
    /\ db_sales = Unset
    /\ sales_df = Unset
    /\ products_df = Unset
    /\ sales_mets = Unset
    /\ cashflow_df = Unset
    /\ ratios = Unset
    /\ burn_rate_months = Unset
    /\ calls = <<>>
    /\ RunUnset

\* Line 32.
call_cash_flow ==
    /\ pc = "start"
    /\ cashflow_df' = cash_flow(monthly_sales, expenses_df)
    /\ pc' = "cash_flow"
    /\ calls' = Append(calls, "cash_flow")
    /\ UNCHANGED <<err, expenses_df, exp_summary, monthly_sales, ratios, burn_rate_months>>
    /\ CashFrame

\* Lines 33-37: the replacement frame is built with pd, a name the module
\* never imports.
guard_empty_cashflow ==
    /\ pc = "cash_flow"
    /\ IF IsEmpty(cashflow_df)
       THEN pc' = "raised" /\ err' = "NameError"
       ELSE pc' = "guarded" /\ err' = err
    /\ UNCHANGED <<expenses_df, exp_summary, monthly_sales, cashflow_df, ratios,
                   burn_rate_months, calls>>
    /\ CashFrame

\* Lines 38-44, for the balance sheet of run_once and for one of zeros.
call_financial_ratios ==
    /\ pc = "guarded"
    /\ \E balance \in BalanceSheets(exp_summary) :
          ratios' = financial_ratios(monthly_sales, exp_summary, balance)
    /\ pc' = "ratios"
    /\ calls' = Append(calls, "financial_ratios")
    /\ UNCHANGED <<err, expenses_df, exp_summary, monthly_sales, cashflow_df,
                   burn_rate_months>>
    /\ CashFrame

\* Lines 48-58.
return_bundle ==
    /\ pc = "ratios"
    /\ LET b == burn_rate(cashflow_df) IN
         IF b.exc = "none"
         THEN burn_rate_months' = b.v /\ pc' = "done" /\ err' = err
         ELSE burn_rate_months' = burn_rate_months /\ pc' = "raised" /\ err' = b.exc
    /\ UNCHANGED <<expenses_df, exp_summary, monthly_sales, cashflow_df, ratios, calls>>
    /\ CashFrame

\* pipeline/dummy.py run_once.
dummy_run_once ==
    /\ pc = "start"
    /\ cashflow_df' = dummy_cashflow(dummy_monthly_sales, dummy_expenses_df)
    /\ ratios' = [gross_margin |-> Ratio(42, 100)]
    /\ burn_rate_months' = Ratio(63, 10)
    /\ pc' = "dummy_done"
    /\ calls' = Append(calls, "dummy_run_once")
    /\ UNCHANGED <<err, expenses_df, exp_summary, monthly_sales>>
    /\ CashFrame

CashNext ==
    \/ call_cash_flow
    \/ guard_empty_cashflow
    \/ call_financial_ratios
    \/ return_bundle
    \/ dummy_run_once

SpecCashflow == CashInit /\ [][CashNext]_vars

(***************************************************************************)
(* Properties of the cash-flow series, the runway and the ratios.          *)
(***************************************************************************)
CashRows == cashflow_df.rows

\* The aggregates the series in cashflow_df was built from.
CashInputs ==
    IF pc = "dummy_done"
    THEN [monthly |-> dummy_monthly_sales.rows, expenses |-> dummy_expenses_df.rows]
    ELSE [monthly |-> monthly_sales.rows,
          expenses |-> IF IsEmpty(expenses_df) THEN <<>> ELSE expenses_df.rows]

RECURSIVE RunningTotal(_, _)
RunningTotal(rows, k) ==
    IF k = 0 THEN 0 ELSE RunningTotal(rows, k - 1) + rows[k].net_cash

\* C2: in every cash-flow series a run returns, the rows are in ascending
\* month order, net_cash = cash_in - cash_out on every row, and the cum_cash
\* of the k-th row is the sum of net_cash over rows 1..k.
C2_PrefixSumInMonthOrder ==
    cashflow_df # Unset =>
        /\ \A i, j \in DOMAIN CashRows : i < j => StrLess(CashRows[i].month, CashRows[j].month)
        /\ \A k \in DOMAIN CashRows :
              /\ CashRows[k].net_cash = CashRows[k].cash_in - CashRows[k].cash_out
              /\ CashRows[k].cum_cash = RunningTotal(CashRows, k)

\* A two-month series built from aggregates given in descending month order,
\* with a non-zero net in both months; and the series of the dummy run.
C2_Witness ==
    /\ pc = "done"
    /\ Len(CashRows) = 2
    /\ StrLess(monthly_sales.rows[2].month, monthly_sales.rows[1].month)
    /\ CashRows[1].net_cash < 0
    /\ CashRows[2].net_cash > 0

ExpensesOfMonth(m) ==
    SumField(SelectSeq(CashInputs.expenses, LAMBDA r : r.month = m), "amount")

ScenarioRows ==
    <<[month |-> M2024_01, cash_in |-> 12000, cash_out |-> 9500,
       net_cash |-> 2500, cum_cash |-> 2500],
      [month |-> M2024_02, cash_in |-> 15000, cash_out |-> 10300,
       net_cash |-> 4700, cum_cash |-> 7200]>>

\* C12: for monthly sales 12000 and 15000 and monthly expenses 9500 and 10300
\* of 2024-01 and 2024-02 the run returns the rows (2024-01, 12000, 9500,
\* 2500, 2500) and (2024-02, 15000, 10300, 4700, 7200) and the runway 99.
C12_ScenarioRowsAndRunway ==
    pc = "dummy_done" =>
        /\ cashflow_df.rows = ScenarioRows
        /\ burn_rate_months = PyInt(99)

RatiosComputed == pc \in {"ratios", "done"}

RatioSet == {"gross_margin", "current_ratio", "quick_ratio", "debt_to_equity", "dscr"}

extract_employees_frame(result) ==
    IF IsEmpty(result) THEN result
    ELSE DF(result.cols,
            [i \in DOMAIN result.rows |->
                [salary |-> PyInt(to_numeric_fillna0(result.rows[i].salary)),
                 hire_date |-> to_datetime(result.rows[i].hire_date)]
                @@ result.rows[i]])

\* The frame extract_products_data returns for the table read.
extract_products_frame(result) ==
    IF IsEmpty(result) THEN result
    ELSE DF(result.cols,
            [i \in DOMAIN result.rows |->
                [price |-> PyInt(to_numeric_fillna0(result.rows[i].price))]
                @@ result.rows[i]])

\* The frame extract_monthly_summary returns for the view read.
extract_monthly_frame(result) ==
    IF IsEmpty(result) THEN result
    ELSE DF(result.cols,
            [i \in DOMAIN result.rows |->
                [total_sales |-> to_numeric_fillna0(result.rows[i].total_sales)]
                @@ result.rows[i]])

employee_records(df) ==
    [i \in DOMAIN df.rows |->
        [salary |-> to_numeric_fillna0(df.rows[i].salary),
         hire_date |-> to_datetime(df.rows[i].hire_date),
         month |-> strftime_Ym(to_datetime(df.rows[i].hire_date))]
        @@ df.rows[i]]

\* groupby('month')['salary'].sum().to_dict(): a NaN month is in no group.
monthly_salaries(rows) ==
    [m \in {rows[i].month : i \in {j \in DOMAIN rows : rows[j].month # NaN}} |->
        SumField(SelectSeq(rows, LAMBDA r : r.month = m), "salary")]

\* The whole call: [employees_df, metrics].
process_employees_data(df) ==
    IF df = NoneV \/ IsEmpty(df)
    THEN [employees_df |-> EmptyDF, metrics |-> Dict(<<>>)]
    ELSE [employees_df |-> DF(df.cols \cup {"month"}, employee_records(df)),
          metrics |->
              Dict([employee_metrics |->
                        [total_salary |-> SumField(employee_records(df), "salary"),
                         average_salary |-> Ratio(SumField(employee_records(df), "salary"),
                                                  Len(df.rows)),
                         active_employees |-> Len(df.rows),
                         top_performer |->
                             df.rows[idxmax(employee_records(df), "salary")].name],
                    monthly_salaries |-> monthly_salaries(employee_records(df))])]

product_records(df) ==
    [i \in DOMAIN df.rows |->
        [price |-> to_numeric_fillna0(df.rows[i].price),
         category |-> IF "category" \in df.cols THEN df.rows[i].category
                      ELSE PyStr(<<"Unknown">>),
         cost |-> Ratio(to_numeric_fillna0(df.rows[i].price) * 7, 10),
         profit_per_item |-> Ratio(to_numeric_fillna0(df.rows[i].price) * 3, 10)]
        @@ df.rows[i]]

\* The whole call: [products_df, metrics].
process_products_data(df) ==
    IF df = NoneV \/ IsEmpty(df)
    THEN [products_df |-> EmptyDF, metrics |-> Dict(<<>>)]
    ELSE [products_df |->
              DF(df.cols \cup {"category", "cost", "profit_per_item"}, product_records(df)),
          metrics |->
              Dict([total_products |-> Len(df.rows),
                    average_price |-> Ratio(SumField(product_records(df), "price"),
                                            Len(df.rows)),
                    average_profit_per_item |->
                        Ratio(SumField(product_records(df), "price") * 3, 10 * Len(df.rows))])]

(***************************************************************************)
(* A whole run: run_once of pipeline/__init__.py and main of start.py.     *)
(* pc is the line of the entry point that runs next.                       *)
(***************************************************************************)
RunExpenseTables ==
    {DF({"type", "amount", "bill_date"}, rows) :
        rows \in {<<>>,
                  <<[type |-> Rent, amount |-> PyInt(MaxAmount), bill_date |-> Ts(2024, 2)]>>,
                  <<[type |-> Rent, amount |-> PyInt(0 - MaxAmount),   \* a credit note
                     bill_date |-> Ts(2024, 2)]>>}}

RunSalesTables ==
    {DF({"date", "product_sales", "sale_amount"}, rows) :
        rows \in {<<>>, <<[date |-> Ts(2024, 2), product_sales |-> Dict(K1 :> PyInt(MaxAmount)),
                          sale_amount |-> PyInt(MaxAmount + 3)]>>}}

RunProductTables ==
    {DF({"product_id", "price"}, rows) :
        rows \in {<<>>, <<[product_id |-> 1, price |-> PyInt(MaxAmount)]>>,
                  <<[product_id |-> 1, price |-> NoneV]>>}}

RunEmployeeTables ==
    {DF({"name", "salary", "hire_date"}, rows) :
        rows \in {<<>>, <<[name |-> PyStr(<<"Aina">>), salary |-> PyInt(MaxAmount),
                          hire_date |-> Ts(2024, 2)]>>}}

RunMonthlyTables ==
    {DF({"month", "total_sales"}, rows) :
        rows \in {<<>>, <<[month |-> M2024_02, total_sales |-> PyInt(MaxAmount)]>>}}

Init ==
    /\ entry \in {"run_once", "main"}
    /\ pc = "connect"
    /\ err = "none"
    /\ connection = "none"
    /\ db_expenses \in RunExpenseTables
    /\ db_sales \in RunSalesTables
    /\ db_products \in RunProductTables
    /\ db_employees \in RunEmployeeTables
    /\ expenses_df = Unset
    /\ sales_df = Unset
    /\ products_df = Unset
    /\ employees_df = Unset
    /\ exp_summary = Unset
    /\ monthly_sales = Unset
    /\ sales_mets = Unset
    /\ emp_metrics = Unset
    /\ prod_metrics = Unset
    /\ monthly_df = Unset
    /\ cashflow_df = Unset
    /\ ratios = Unset
    /\ burn_rate_months = Unset
    /\ calls = <<>>
    /\ DashUnset

Database == <<db_expenses, db_sales, db_products, db_employees>>

\* What an extract_* method returns: None without a connection or when the
\* query fails, the frame otherwise.
Extracted(frame) ==
    IF connection # "open" THEN {NoneV} ELSE {NoneV, frame}

\* An exception leaves the entry point: run_once lets it go, main closes the
\* connection in its finally clause on the way out (start.py lines 132-134).
Raise(e) ==
    /\ err' = e
    /\ pc' = "raised"
    /\ connection' = IF entry = "main" /\ connection = "open" THEN "closed" ELSE connection

\* rds.connect(): a failure is caught and leaves connection None.
rds_connect ==
    /\ pc = "connect"
    /\ connection' \in {"none", "open"}
    /\ pc' = "extract_expenses"
    /\ calls' = Append(calls, "connect")
    /\ DashFrame
    /\ UNCHANGED <<err, entry, Database, expenses_df, sales_df, products_df, employees_df,
                   exp_summary, monthly_sales, sales_mets, emp_metrics, prod_metrics,
                   monthly_df, cashflow_df, ratios, burn_rate_months>>

\* run_once line 14, main line 47.
run_extract_expenses ==
    /\ pc = "extract_expenses"
    /\ expenses_df' \in Extracted(extract_expenses_frame(db_expenses))
    /\ pc' = IF entry = "run_once" THEN "extract_sales" ELSE "process_expenses"
    /\ calls' = Append(calls, "extract_expenses_data")
    /\ DashFrame
    /\ UNCHANGED <<err, entry, connection, Database, sales_df, products_df, employees_df,
                   exp_summary, monthly_sales, sales_mets, emp_metrics, prod_metrics,
                   monthly_df, cashflow_df, ratios, burn_rate_months>>

\* How often the run has invoked the named operation so far.
CallCount(name) == Cardinality({i \in DOMAIN calls : calls[i] = name})

\* Variant of run_extract_sales: the sales table is queried a second time.
run_extract_sales_twice ==
    /\ pc = "extract_sales"
    /\ sales_df' \in Extracted(extract_sales_frame(db_sales))
    /\ pc' = IF CallCount("extract_sales_data") = 0 THEN "extract_sales"
             ELSE IF entry = "run_once" THEN "extract_products" ELSE "process_sales"
    /\ calls' = Append(calls, "extract_sales_data")
    /\ DashFrame
    /\ UNCHANGED <<err, entry, connection, Database, expenses_df, products_df, employees_df,
                   exp_summary, monthly_sales, sales_mets, emp_metrics, prod_metrics,
                   monthly_df, cashflow_df, ratios, burn_rate_months>>

\* run_once line 15, main line 54.
run_extract_sales ==
    /\ pc = "extract_sales"
    /\ sales_df' \in Extracted(extract_sales_frame(db_sales))
    /\ pc' = IF entry = "run_once" THEN "extract_products" ELSE "process_sales"
    /\ calls' = Append(calls, "extract_sales_data")
    /\ DashFrame
    /\ UNCHANGED <<err, entry, connection, Database, expenses_df, products_df, employees_df,
                   exp_summary, monthly_sales, sales_mets, emp_metrics, prod_metrics,
                   monthly_df, cashflow_df, ratios, burn_rate_months>>

\* run_once line 16, main line 61.
run_extract_products ==
    /\ pc = "extract_products"
    /\ products_df' \in Extracted(extract_products_frame(db_products))
    /\ pc' = IF entry = "run_once" THEN "extract_employees" ELSE "process_products"
    /\ calls' = Append(calls, "extract_products_data")
    /\ DashFrame
    /\ UNCHANGED <<err, entry, connection, Database, expenses_df, sales_df, employees_df,
                   exp_summary, monthly_sales, sales_mets, emp_metrics, prod_metrics,
                   monthly_df, cashflow_df, ratios, burn_rate_months>>

\* run_once line 17, main line 59.
run_extract_employees ==
    /\ pc = "extract_employees"
    /\ employees_df' \in Extracted(extract_employees_frame(db_employees))
    /\ pc' = IF entry = "run_once" THEN "process_expenses" ELSE "extract_products"
    /\ calls' = Append(calls, "extract_employees_data")
    /\ DashFrame
    /\ UNCHANGED <<err, entry, connection, Database, expenses_df, sales_df, products_df,
                   exp_summary, monthly_sales, sales_mets, emp_metrics, prod_metrics,
                   monthly_df, cashflow_df, ratios, burn_rate_months>>

\* run_once line 20, main lines 50-51 (main drops the returned frame).
run_process_expenses ==
    /\ pc = "process_expenses"
    /\ expenses_df' = IF entry = "run_once"
                      THEN process_expenses_data(expenses_df).expenses_df
                      ELSE IF expenses_df = NoneV \/ IsEmpty(expenses_df) THEN expenses_df
                      ELSE process_expenses_data(expenses_df).expenses_df
    /\ exp_summary' = process_expenses_data(expenses_df).summary
    /\ pc' = IF entry = "run_once" THEN "process_products" ELSE "extract_sales"
    /\ calls' = Append(calls, "process_expenses_data")
    /\ DashFrame
    /\ UNCHANGED <<err, entry, connection, Database, sales_df, products_df, employees_df,
                   monthly_sales, sales_mets, emp_metrics, prod_metrics,
                   monthly_df, cashflow_df, ratios, burn_rate_months>>

\* run_once line 21, main lines 60-61.
run_process_products ==
    /\ pc = "process_products"
    /\ products_df' = process_products_data(products_df).products_df
    /\ prod_metrics' = process_products_data(products_df).metrics
    /\ pc' = IF entry = "run_once" THEN "process_sales" ELSE "extract_monthly"
    /\ calls' = Append(calls, "process_products_data")
    /\ DashFrame
    /\ UNCHANGED <<err, entry, connection, Database, expenses_df, sales_df, employees_df,
                   exp_summary, monthly_sales, sales_mets, emp_metrics,
                   monthly_df, cashflow_df, ratios, burn_rate_months>>

\* The price table process_sales_data is handed: run_once passes the
\* processed products (line 22), main passes none (lines 55-56).
products_argument ==
    IF entry = "main" THEN NoneV
    ELSE IF IsEmpty(products_df) THEN products_df
    ELSE DF(products_df.cols, products_df.rows)

\* run_once line 22, main lines 55-56.
run_process_sales ==
    /\ pc = "process_sales"
    /\ LET r == process_sales_data(sales_df, products_argument) IN
         /\ sales_df' = r.sales_df
         /\ IF r.exc = "none"
            THEN /\ monthly_sales' = r.monthly_df
                 /\ sales_mets' = r.metrics
                 /\ pc' = IF entry = "run_once" THEN "guard_monthly_sales"
                          ELSE "extract_employees"
                 /\ UNCHANGED <<err, connection>>
            ELSE /\ Raise(r.exc)
                 /\ UNCHANGED <<monthly_sales, sales_mets>>
    /\ calls' = Append(calls, "process_sales_data")
    /\ DashFrame
    /\ UNCHANGED <<entry, Database, expenses_df, products_df, employees_df,
                   exp_summary, emp_metrics, prod_metrics,
                   monthly_df, cashflow_df, ratios, burn_rate_months>>

\* run_once lines 23-27: the replacement frame is built with pd, a name
\* pipeline/__init__.py never imports.
guard_monthly_sales ==
    /\ pc = "guard_monthly_sales"
    /\ IF IsEmpty(monthly_sales)
       THEN Raise("NameError")
       ELSE pc' = "process_employees" /\ UNCHANGED <<err, connection>>
    /\ DashFrame
    /\ UNCHANGED <<entry, Database, expenses_df, sales_df, products_df, employees_df,
                   exp_summary, monthly_sales, sales_mets, emp_metrics, prod_metrics,
                   monthly_df, cashflow_df, ratios, burn_rate_months, calls>>

\* run_once line 28.
run_process_employees ==
    /\ pc = "process_employees"
    /\ employees_df' = process_employees_data(employees_df).employees_df
    /\ emp_metrics' = process_employees_data(employees_df).metrics
    /\ pc' = "inject_total_salary"
    /\ calls' = Append(calls, "process_employees_data")
    /\ DashFrame
    /\ UNCHANGED <<err, entry, connection, Database, expenses_df, sales_df, products_df,
                   exp_summary, monthly_sales, sales_mets, prod_metrics,
                   monthly_df, cashflow_df, ratios, burn_rate_months>>

\* run_once line 30: exp_summary['total_salary'] = emp_metrics['total_salary'].
\* Lines 32-58 follow it; SpecCashflow runs them.
inject_total_salary ==
    /\ pc = "inject_total_salary"
    /\ IF "total_salary" \in DOMAIN emp_metrics.d
       THEN /\ exp_summary' = Dict(("total_salary" :> emp_metrics.d.total_salary)
                                   @@ exp_summary.d)
            /\ pc' = "start"
            /\ UNCHANGED <<err, connection>>
       ELSE /\ Raise("KeyError")
            /\ UNCHANGED exp_summary
    /\ DashFrame
    /\ UNCHANGED <<entry, Database, expenses_df, sales_df, products_df, employees_df,
                   monthly_sales, sales_mets, emp_metrics, prod_metrics,
                   monthly_df, cashflow_df, ratios, burn_rate_months, calls>>

\* main line 64: the monthly_sales view of the database.
run_extract_monthly ==
    /\ pc = "extract_monthly"
    /\ \E view \in RunMonthlyTables :
          monthly_df' \in Extracted(extract_monthly_frame(view))
    /\ pc' = "pick_monthly"
    /\ calls' = Append(calls, "extract_monthly_summary")
    /\ DashFrame
    /\ UNCHANGED <<err, entry, connection, Database, expenses_df, sales_df, products_df,
                   employees_df, exp_summary, monthly_sales, sales_mets, emp_metrics,
                   prod_metrics, cashflow_df, ratios, burn_rate_months>>

\* main lines 65-66: monthly_df.empty is read whatever extraction returned.
pick_monthly ==
    /\ pc = "pick_monthly"
    /\ IF monthly_df = NoneV
       THEN Raise("AttributeError") /\ UNCHANGED monthly_df
       ELSE /\ monthly_df' = IF IsEmpty(monthly_df) /\ ~IsEmpty(monthly_sales)
                             THEN monthly_sales ELSE monthly_df
            /\ pc' = "insights"
            /\ UNCHANGED <<err, connection>>
    /\ DashFrame
    /\ UNCHANGED <<entry, Database, expenses_df, sales_df, products_df, employees_df,
                   exp_summary, monthly_sales, sales_mets, emp_metrics, prod_metrics,
                   cashflow_df, ratios, burn_rate_months, calls>>

\* main lines 69-134: the three requests to the language model, any of which
\* may fail, and then the finally clause.
generate_insights ==
    /\ pc = "insights"
    /\ \E ok \in BOOLEAN :
          IF ok
          THEN /\ pc' = "done"
               /\ err' = err
               /\ connection' = IF connection = "open" THEN "closed" ELSE connection
          ELSE Raise("APIError")
    /\ calls' = Append(calls, "close_connection")
    /\ DashFrame
    /\ UNCHANGED <<entry, Database, expenses_df, sales_df, products_df, employees_df,
                   exp_summary, monthly_sales, sales_mets, emp_metrics, prod_metrics,
                   monthly_df, cashflow_df, ratios, burn_rate_months>>

Next ==
    \/ rds_connect
    \/ run_extract_expenses
    \/ run_extract_sales
    \/ run_extract_products
    \/ run_extract_employees
    \/ run_process_expenses
    \/ run_process_products
    \/ run_process_sales
    \/ guard_monthly_sales
    \/ run_process_employees
    \/ inject_total_salary
    \/ run_extract_monthly
    \/ pick_monthly
    \/ generate_insights

Spec == Init /\ [][Next]_vars

(***************************************************************************)
(* Properties of a whole run.                                              *)
(***************************************************************************)
EmptyOrNone(df) == df # Unset /\ (df = NoneV \/ IsEmpty(df))

\* The run has ended and every record set it extracted was empty or None.
AllSetsEmpty ==
    /\ pc \in {"raised", "done"}
    /\ EmptyOrNone(expenses_df)
    /\ EmptyOrNone(sales_df)
    /\ EmptyOrNone(products_df)
    /\ EmptyOrNone(employees_df)

\* C8: when the four record sets are empty or None the run (run_once, main)
\* ends without raising an exception of its own, and each process_* call on
\* such a set gives an empty table and an empty metrics mapping.
C8_EmptySetsNeverRaise ==
    AllSetsEmpty =>
        /\ err \in {"none", "APIError"}
        /\ exp_summary # Unset => exp_summary = Dict(<<>>)
        /\ sales_mets # Unset => sales_mets = Dict(<<>>) /\ monthly_sales = EmptyDF
        /\ prod_metrics # Unset => prod_metrics = Dict(<<>>)
        /\ emp_metrics # Unset => emp_metrics = Dict(<<>>) /\ employees_df = EmptyDF

\* The frames a process_* call has written its coerced columns into.
ExpensesNormalized ==
    expenses_df # Unset /\ expenses_df # NoneV /\ "is_utility" \in expenses_df.cols
EmployeesNormalized ==
    employees_df # Unset /\ employees_df # NoneV /\ "month" \in employees_df.cols
ProductsNormalized ==
    products_df # Unset /\ products_df # NoneV /\ "cost" \in products_df.cols
SalesNormalized ==
    sales_df # Unset /\ sales_df # NoneV /\ "items_sold" \in sales_df.cols

\* C13: after normalization every numeric field (expense amount, employee
\* salary, product price, sale amount) is a non-negative number, whatever the
\* raw value was.
C13_NumericFieldsNonNegative ==
    /\ ExpensesNormalized => \A i \in DOMAIN expenses_df.rows : expenses_df.rows[i].amount >= 0
    /\ EmployeesNormalized => \A i \in DOMAIN employees_df.rows : employees_df.rows[i].salary >= 0
    /\ ProductsNormalized => \A i \in DOMAIN products_df.rows : products_df.rows[i].price >= 0
    /\ SalesNormalized => \A i \in DOMAIN sales_df.rows : sales_df.rows[i].daily_sales >= 0

ExtractCalls ==
    {"extract_expenses_data", "extract_sales_data", "extract_products_data",
     "extract_employees_data", "extract_monthly_summary"}

ProcessCalls ==
    {"process_expenses_data", "process_products_data", "process_sales_data",
     "process_employees_data"}

\* The extraction that fetches the record set a process_* step consumes.
OwnExtract ==
    [process_expenses_data |-> "extract_expenses_data",
     process_products_data |-> "extract_products_data",
     process_sales_data |-> "extract_sales_data",
     process_employees_data |-> "extract_employees_data"]

ExtractAtMostOnce == \A name \in ExtractCalls : CallCount(name) <= 1

\* No extraction is invoked after a process_* step has begun.
ExtractionFirst ==
    \A i, j \in DOMAIN calls :
        (i < j /\ calls[i] \in ProcessCalls) => calls[j] \notin ExtractCalls

Precedes(a, b) ==
    \A j \in DOMAIN calls : calls[j] = b => \E i \in 1..(j - 1) : calls[i] = a

SalaryLineExecuted ==
    /\ entry = "run_once"
    /\ pc \in {"start", "raised"}
    /\ calls # <<>>
    /\ calls[Len(calls)] = "process_employees_data"

\* C17: after line 30 of run_once the expense summary that goes to
\* financial_ratios carries the total salary process_employees_data computed.
C17_TotalSalaryInjected ==
    SalaryLineExecuted =>
        /\ pc = "start"
        /\ exp_summary.d.total_salary = emp_metrics.d.employee_metrics.total_salary

\* The entry point has returned or let an exception go.
RunEnded == pc \in {"done", "raised"}

\* C19: a run that has ended has not left the connection it opened open.
C19_ConnectionClosedAtEnd == RunEnded => connection # "open"

(***************************************************************************)
(* dashboard/app.py: refresh() and the two handlers that call it, run by   *)
(* the web server's worker threads.  The cache maps a key to a bundle      *)
(* object; bundle objects live in the heap `bundles` and are referred to   *)
(* by their position in it, so that two names for one object see each      *)
(* other's writes.                                                         *)
(***************************************************************************)
MaxCalls == 3       \* handler calls in one behaviour, over both threads

Callers == {"t1", "t2"}
Handlers == {"dash_update", "chat_fn"}

PipelineFrame ==
    UNCHANGED <<pc, err, db_expenses, db_sales, expenses_df, sales_df, products_df,
                exp_summary, monthly_sales, sales_mets, cashflow_df, ratios,
                burn_rate_months, entry, connection, db_products,
                db_employees, employees_df, emp_metrics, prod_metrics, monthly_df>>

PipelineUnset ==
    /\ pc = Unset
    /\ err = Unset
    /\ db_expenses = Unset
    /\ db_sales = Unset
    /\ expenses_df = Unset
    /\ sales_df = Unset
    /\ products_df = Unset
    /\ exp_summary = Unset
    /\ monthly_sales = Unset
    /\ sales_mets = Unset
    /\ cashflow_df = Unset
    /\ ratios = Unset
    /\ burn_rate_months = Unset
    /\ entry = Unset
    /\ connection = Unset
    /\ db_products = Unset
    /\ db_employees = Unset
    /\ employees_df = Unset
    /\ emp_metrics = Unset
    /\ prod_metrics = Unset
    /\ monthly_df = Unset

NaTStr == <<"N", "a", "T">>

\* pd.to_datetime(text, errors="coerce") on one cell holding YYYY-MM.
to_datetime_text(m) ==
    IF /\ m # NaN
       /\ Len(m) = 7
       /\ m[5] = "-"
       /\ IsDigits(SubSeq(m, 1, 4))
       /\ IsDigits(SubSeq(m, 6, 7))
       /\ DecVal(SubSeq(m, 6, 7)) \in 1..12
    THEN Ts(DecVal(SubSeq(m, 1, 4)), DecVal(SubSeq(m, 6, 7)))
    ELSE NaT

\* Lines 22-24: .dt.to_period("M").astype(str) of the parsed column.
period_str(column) ==
    [i \in DOMAIN column |->
        IF to_datetime_text(column[i]) = NaT THEN NaTStr
        ELSE strftime_Ym(to_datetime_text(column[i]))]

\* frame["month"] = series: the series is aligned on the frame's index, a row
\* the series has no label for becomes NaN.
set_month(frame, series) ==
    DF(frame.cols \cup {"month"},
       [i \in DOMAIN frame.rows |->
           [frame.rows[i] EXCEPT !.month = IF i \in DOMAIN series THEN series[i] ELSE NaN]])

\* The bundle pipeline/dummy.py returns (lines 23-27).
dummy_bundle ==
    [cashflow |-> dummy_cashflow(dummy_monthly_sales, dummy_expenses_df),
     ratios |-> [gross_margin |-> Ratio(42, 100)],
     burn_rate_months |-> Ratio(63, 10)]

\* The bundle pipeline/__init__.py builds at lines 32-58 from its aggregates.
run_once_bundle(monthly, expenses, summary) ==
    [cashflow |-> cash_flow(monthly, expenses),
     ratios |-> financial_ratios(monthly, summary, run_once_balance(summary)),
     burn_rate_months |-> burn_rate(cash_flow(monthly, expenses)).v]

M2023_12 == <<"2", "0", "2", "3", "-", "1", "2">>

\* Aggregates of two states of the database, a month of sales apart.
DashAggregates ==
    {<<DF({"date", "total_sales", "month"},
          <<[month |-> M2023_12, total_sales |-> MaxAmount]>>), EmptyDF>>,
     <<dummy_monthly_sales, dummy_expenses_df>>}

DashSummary == [total_ingredients |-> 0, total_other |-> 0, total_salary |-> 0]

\* What a call of run_once can hand back to refresh(): the bundle of
\* pipeline/dummy.py, or the one pipeline/__init__.py builds from the
\* aggregates of the database as it is when the call runs.
RunOnceBundles ==
    {dummy_bundle}
    \cup {run_once_bundle(a[1], a[2], DashSummary) : a \in DashAggregates}

RunOnceOutcomes == RunOnceBundles \cup {[exc |-> "Exception"]}

\* A worker thread that runs no handler.
Idle == [pc |-> "idle", fn |-> "none", result |-> 0, cf |-> 0, months |-> <<>>,
         ret |-> 0, err |-> "none", line |-> 0]

DashInit ==
    /\ cache = <<>>
    /\ bundles = <<>>
    /\ callers = [t \in Callers |-> Idle]
    /\ calls = <<>>
    /\ PipelineUnset

\* "frames" in cache: false for a missing and for an expired entry.
contains_frames == cache # <<>>

Step(t, rec) == callers' = [callers EXCEPT ![t] = rec]

\* cache["frames"] on a missing or expired entry, at the given line of app.py.
KeyError(t, line) ==
    Step(t, [Idle EXCEPT !.pc = "raised", !.fn = callers[t].fn, !.err = "KeyError",
                         !.line = line])

\* Gradio dispatches an event to a worker thread: dash_update (line 122) or
\* chat_fn (line 31) calls refresh().
begin_handler(t) ==
    /\ callers[t].pc \in {"idle", "done", "raised"}
    /\ Len(calls) < MaxCalls
    /\ \E fn \in Handlers :
          /\ Step(t, [Idle EXCEPT !.pc = "line15", !.fn = fn])
          /\ calls' = Append(calls, "refresh")
    /\ UNCHANGED <<cache, bundles>>
    /\ PipelineFrame

\* Line 15: if "frames" not in cache.
test_frames(t) ==
    /\ callers[t].pc = "line15"
    /\ Step(t, [callers[t] EXCEPT !.pc = IF contains_frames THEN "line19" ELSE "line16"])
    /\ UNCHANGED <<cache, bundles, calls>>
    /\ PipelineFrame

\* Line 16, right-hand side: run_once() is entered.
call_run_once(t) ==
    /\ callers[t].pc = "line16"
    /\ Step(t, [callers[t] EXCEPT !.pc = "run_once"])
    /\ UNCHANGED <<cache, bundles, calls>>
    /\ PipelineFrame

\* run_once() ends: it raises, or it returns a new bundle object.
run_once_ends(t) ==
    /\ callers[t].pc = "run_once"
    /\ \E outcome \in RunOnceOutcomes :
          IF "exc" \in DOMAIN outcome
          THEN /\ Step(t, [Idle EXCEPT !.pc = "raised", !.fn = callers[t].fn,
                                       !.err = outcome.exc, !.line = 16])
               /\ bundles' = bundles
          ELSE /\ bundles' = Append(bundles, outcome)
               /\ Step(t, [callers[t] EXCEPT !.pc = "store", !.result = Len(bundles) + 1])
    /\ UNCHANGED <<cache, calls>>
    /\ PipelineFrame

\* Line 16, assignment: cache["frames"] = <the bundle>; maxsize=1, the entry
\* replaces whatever the cache held.
store_frames(t) ==
    /\ callers[t].pc = "store"
    /\ cache' = [frames |-> callers[t].result]
    /\ Step(t, [callers[t] EXCEPT !.pc = "line19"])
    /\ UNCHANGED <<bundles, calls>>
    /\ PipelineFrame

\* Line 19: cf = cache["frames"]["cashflow"].
read_cashflow(t) ==
    /\ callers[t].pc = "line19"
    /\ IF contains_frames
       THEN Step(t, [callers[t] EXCEPT !.pc = "line20", !.cf = cache.frames])
       ELSE KeyError(t, 19)
    /\ UNCHANGED <<cache, bundles, calls>>
    /\ PipelineFrame

\* Lines 20-25: if not cf.empty, the right-hand side of the assignment is
\* evaluated from cf.
normalise_month(t) ==
    /\ callers[t].pc = "line20"
    /\ LET cf == bundles[callers[t].cf].cashflow IN
         IF IsEmpty(cf)
         THEN Step(t, [callers[t] EXCEPT !.pc = "line26"])
         ELSE Step(t, [callers[t] EXCEPT
                          !.pc = "line21",
                          !.months = period_str([i \in DOMAIN cf.rows |-> cf.rows[i].month])])
    /\ UNCHANGED <<cache, bundles, calls>>
    /\ PipelineFrame

\* Line 21: cache["frames"]["cashflow"]["month"] = <the series>; the target
\* is looked up in the cache again and its column is replaced in place.
assign_month(t) ==
    /\ callers[t].pc = "line21"
    /\ IF contains_frames
       THEN /\ bundles' = [bundles EXCEPT
                              ![cache.frames].cashflow = set_month(@, callers[t].months)]
            /\ Step(t, [callers[t] EXCEPT !.pc = "line26"])
       ELSE KeyError(t, 21) /\ bundles' = bundles
    /\ UNCHANGED <<cache, calls>>
    /\ PipelineFrame

\* Line 26: return cache["frames"].
return_frames(t) ==
    /\ callers[t].pc = "line26"
    /\ IF contains_frames
       THEN Step(t, [callers[t] EXCEPT !.pc = "returned", !.ret = cache.frames])
       ELSE KeyError(t, 26)
    /\ UNCHANGED <<cache, bundles, calls>>
    /\ PipelineFrame

\* The rest of the handler, which reads the bundle refresh() returned:
\* dash_update copies the cashflow frame (line 123) and reads the runway and
\* three ratios (lines 132-146); chat_fn hands the bundle to build(), which
\* renders its tables.
use_bundle(t) ==
    /\ callers[t].pc = "returned"
    /\ LET data == bundles[callers[t].ret] IN
         IF /\ callers[t].fn = "dash_update"
            /\ ~IsEmpty(data.cashflow)
            /\ "current_ratio" \notin DOMAIN data.ratios
         THEN KeyError(t, 144)
         ELSE Step(t, [Idle EXCEPT !.pc = "done", !.fn = callers[t].fn])
    /\ UNCHANGED <<cache, bundles, calls>>
    /\ PipelineFrame

\* ttl=60: a minute after it was stored the entry is expired; a lookup then
\* behaves as for a missing key.
ttl_expire ==
    /\ cache # <<>>
    /\ cache' = <<>>
    /\ UNCHANGED <<bundles, callers, calls>>
    /\ PipelineFrame

DashNext ==
    \/ \E t \in Callers : begin_handler(t)
    \/ \E t \in Callers : test_frames(t)
    \/ \E t \in Callers : call_run_once(t)
    \/ \E t \in Callers : run_once_ends(t)
    \/ \E t \in Callers : store_frames(t)
    \/ \E t \in Callers : read_cashflow(t)
    \/ \E t \in Callers : normalise_month(t)
    \/ \E t \in Callers : assign_month(t)
    \/ \E t \in Callers : return_frames(t)
    \/ \E t \in Callers : use_bundle(t)
    \/ ttl_expire

SpecDashboard == DashInit /\ [][DashNext]_vars

DashTypeOK ==
    /\ \A t \in Callers : callers[t].ret \in {0} \cup DOMAIN bundles
    /\ cache # <<>> => cache.frames \in DOMAIN bundles

(***************************************************************************)
(* Properties of the dashboard cache.                                      *)
(***************************************************************************)
\* The thread whose step this is writes the month column of the bundle its
\* own call of run_once returned.
WritesOwnBundle(t, id) ==
    /\ callers[t].pc = "line21"
    /\ callers'[t].pc = "line26"
    /\ callers[t].result = id

\* C15: once run_once has returned a bundle, the only step that changes a
\* value inside it is the normalisation by the call that fetched it; no
\* other call of refresh(), from dash_update or chat_fn, writes to it.
C15_CachedBundleOnlyRead ==
    [][\A id \in DOMAIN bundles :
          bundles'[id] # bundles[id] => \E t \in Callers : WritesOwnBundle(t, id)]_vars

InFlight == {t \in Callers : callers[t].pc = "run_once"}

\* C16: at no moment are two calls of run_once in flight.
C16_SingleFlight == Cardinality(InFlight) <= 1

CacheLookupLines == {19, 21, 26}

\* C20: a refresh() that ends returns a bundle run_once produced, and none
\* ends with the KeyError of a lookup of cache["frames"].
C20_RefreshNeverFailsOnLookup ==
    \A t \in Callers :
        /\ callers[t].pc = "returned" => callers[t].ret \in DOMAIN bundles
        /\ ~(/\ callers[t].pc = "raised"
             /\ callers[t].err = "KeyError"
             /\ callers[t].line \in CacheLookupLines)

====
